---- MODULE Spec2Model ----
(***************************************************************************)
(* A model of the Nextcloud WebDAV client (nextcloud_api.py) and of the    *)
(* operations it offers: upload_file, create_directory, list_directory,    *)
(* delete, and the URL construction and PROPFIND parsing they rest on.     *)
(*                                                                         *)
(* Strings are sequences of characters.  A character is a one-character    *)
(* string; a longer string such as "docs" or "x.txt" stands for a run of   *)
(* unreserved characters, which quote passes through unchanged.  No such   *)
(* run follows a '%' in a string that is decoded: in what quote makes,     *)
(* every '%' is followed by two digits, each a character of its own.       *)
(***************************************************************************)
EXTENDS Integers, Sequences, FiniteSets, TLC

VARIABLES
    nextcloud_url,  \* the URL the client was constructed with
    pc,       \* "idle": no call in progress; "done": a call has returned
    last,     \* the call that returned last: its inputs and its outcome
    path,     \* SpecUrl: the remote path being typed in
    url,      \* SpecUrl: what _build_url made of path
    server,   \* SpecDav: the resources the WebDAV server holds
    prev,     \* SpecDav: the call before last
    scen,     \* SpecDav: progress of the example sequence
    disk,     \* SpecApi: the working directory of the REST service
    reqs      \* SpecApi: the upload requests the REST service is handling

vars == <<nextcloud_url, pc, last, path, url, server, prev, scen, disk, reqs>>

---------------------------------------------------------------------------
(* Bounds                                                                  *)

MaxLen == 4        \* SpecUrl: longest remote path, in characters
MaxPathLen == 4    \* Spec: longest remote path, in characters
MaxRequests == 2   \* SpecApi: upload requests in flight at the endpoint
MaxResp == 2       \* Spec: most response elements in a PROPFIND body

---------------------------------------------------------------------------
(* Python string operations                                                *)

Slash == "/"

\* str.startswith('/')
startswith_slash(s) == Len(s) > 0 /\ s[1] = Slash

\* str.endswith('/')
endswith_slash(s) == Len(s) > 0 /\ s[Len(s)] = Slash

RECURSIVE rstrip(_)
\* str.rstrip('/')
rstrip(s) ==
    IF endswith_slash(s) THEN rstrip(SubSeq(s, 1, Len(s) - 1)) ELSE s

RECURSIVE lstrip(_)
\* str.lstrip('/')
lstrip(s) ==
    IF startswith_slash(s) THEN lstrip(SubSeq(s, 2, Len(s))) ELSE s

\* str.strip('/')
strip(s) == rstrip(lstrip(s))

RECURSIVE split(_)
\* str.split('/'): the empty string splits into one empty part
split(s) ==
    IF \E i \in 1..Len(s) : s[i] = Slash
    THEN LET i == CHOOSE k \in 1..Len(s) :
                      s[k] = Slash /\ \A j \in 1..(k - 1) : s[j] # Slash
         IN  <<SubSeq(s, 1, i - 1)>> \o split(SubSeq(s, i + 1, Len(s)))
    ELSE <<s>>

\* the parts of a string between its slashes that are not empty
NonEmptySegments(s) == SelectSeq(split(s), LAMBDA part : Len(part) > 0)

RECURSIVE join(_)
\* '/'.join(parts)
join(parts) ==
    IF Len(parts) = 0 THEN <<>>
    ELSE IF Len(parts) = 1 THEN parts[1]
    ELSE parts[1] \o <<Slash>> \o join(Tail(parts))

---------------------------------------------------------------------------
(* urllib.parse.quote and unquote                                          *)

HexDigits == <<"0", "1", "2", "3", "4", "5", "6", "7",
               "8", "9", "A", "B", "C", "D", "E", "F">>

\* the ASCII characters of the model that quote(safe='') must encode
Ord == [c \in {" ", "#", "%", "/", "?"} |->
          CASE c = " " -> 32 [] c = "#" -> 35 [] c = "%" -> 37
            [] c = "/" -> 47 [] c = "?" -> 63]

\* the value of a hexadecimal digit, -1 for any other character
HexVal(c) ==
    IF \E i \in 1..16 : HexDigits[i] = c
    THEN (CHOOSE i \in 1..16 : HexDigits[i] = c) - 1
    ELSE CASE c = "a" -> 10 [] c = "b" -> 11 [] c = "c" -> 12
           [] c = "d" -> 13 [] c = "e" -> 14 [] c = "f" -> 15
           [] OTHER -> -1

\* the character of a byte: bytes from 0x80 on are no UTF-8 text alone and
\* decode to the replacement character
Chr(n) ==
    IF \E c \in DOMAIN Ord : Ord[c] = n THEN CHOOSE c \in DOMAIN Ord : Ord[c] = n
    ELSE IF n >= 48 /\ n <= 57 THEN HexDigits[n - 47]
    ELSE IF n >= 128 THEN "U+FFFD"
    ELSE "chr" \o ToString(n)

\* quote_char as it would be with '%' left as it is
quote_char_PercentSafe(c) ==
    IF c \in DOMAIN Ord /\ c # "%"
    THEN <<"%", HexDigits[(Ord[c] \div 16) + 1], HexDigits[(Ord[c] % 16) + 1]>>
    ELSE <<c>>

\* quote of one character with safe='': unreserved characters are kept
quote_char(c) ==
    IF c \in DOMAIN Ord
    THEN <<"%", HexDigits[(Ord[c] \div 16) + 1], HexDigits[(Ord[c] % 16) + 1]>>
    ELSE <<c>>

RECURSIVE quote(_)
\* urllib.parse.quote(part, safe='')
quote(part) ==
    IF Len(part) = 0 THEN <<>>
    ELSE quote_char(part[1]) \o quote(Tail(part))

RECURSIVE unquote(_)
\* urllib.parse.unquote(s): '%' and two hexadecimal digits become one
\* character, any other '%' is kept
unquote(s) ==
    IF Len(s) = 0 THEN <<>>
    ELSE IF s[1] = "%" /\ Len(s) >= 3 /\ HexVal(s[2]) >= 0 /\ HexVal(s[3]) >= 0
    THEN <<Chr(16 * HexVal(s[2]) + HexVal(s[3]))>> \o unquote(SubSeq(s, 4, Len(s)))
    ELSE <<s[1]>> \o unquote(Tail(s))

---------------------------------------------------------------------------
(* NextcloudClient: construction and _build_url                            *)

\* the default of the NEXTCLOUD_URL setting: a server at the root of its host
NEXTCLOUD_URL == <<"http:", "/", "/", "localhost:8080">>
USERNAME == "Meysam08"

\* the URLs a client is constructed with: the default, the default with a
\* trailing slash, and a server installed under a path of its host
NextcloudUrls ==
    {NEXTCLOUD_URL, NEXTCLOUD_URL \o <<Slash>>, NEXTCLOUD_URL \o <<Slash, "nextcloud">>}

\* self.base_url = nextcloud_url.rstrip('/')
base_url == rstrip(nextcloud_url)

\* self.dav_base_path = f'/remote.php/dav/files/{self.username}'
dav_base_path == <<"/", "remote.php", "/", "dav", "/", "files", "/", USERNAME>>

\* url_parts as it would be without the strip('/')
url_parts_NoStrip(remote_path) ==
    LET rp == IF ~startswith_slash(remote_path) THEN <<Slash>> \o remote_path
              ELSE remote_path
    IN  split(rp)

\* the parts of the path that _build_url encodes
url_parts(remote_path) ==
    LET rp == IF ~startswith_slash(remote_path) THEN <<Slash>> \o remote_path
              ELSE remote_path
    IN  split(strip(rp))

\* '/'.join(quote(part, safe='') for part in remote_path.strip('/').split('/'))
encoded_path(remote_path) ==
    LET parts == url_parts(remote_path)
    IN  join([i \in 1..Len(parts) |-> quote(parts[i])])

_build_url(remote_path) ==
    base_url \o dav_base_path \o <<Slash>> \o encoded_path(remote_path)

---------------------------------------------------------------------------
(* Responses and outcomes                                                  *)

\* what a call hands back: kind is "True", "False", "None" (the function
\* ran off its end), "list" (items holds the listing) or "raise" (exc names
\* the exception); parsed tells whether ET.fromstring was given the body;
\* sent is the requests the call handed to the session, in order
Outcome(kind, exc, items, parsed, sent) ==
    [kind |-> kind, exc |-> exc, items |-> items, parsed |-> parsed, sent |-> sent]

Returns(kind, sent) == Outcome(kind, "", <<>>, FALSE, sent)
Raises(exc, sent) == Outcome("raise", exc, <<>>, FALSE, sent)

Request(method, u) == [method |-> method, url |-> u]

\* requests.Response.raise_for_status: HTTPError for 4xx and 5xx only
raise_for_status(status_code) ==
    IF status_code >= 400 /\ status_code < 600 THEN "HTTPError" ELSE "ok"

_handle_response(status_code, success_codes) ==
    IF status_code \notin success_codes
    THEN raise_for_status(status_code)
    ELSE "ok"

---------------------------------------------------------------------------
(* upload_file                                                             *)

\* a local path names no file, a file that open() refuses, or a file
LocalFiles == {"missing", "unreadable", "readable"}

\* os.path.exists(local_file_path)
os_path_exists(f) == f # "missing"

\* open(local_file_path, 'rb') succeeds
open_rb(f) == f = "readable"

\* upload_file as it would be with the PUT issued before the file is looked for
upload_file_PutFirst(local_file_path, remote_path, response) ==
    LET sent == <<Request("PUT", _build_url(remote_path))>>
    IN  IF ~os_path_exists(local_file_path) THEN Raises("FileNotFoundError", sent)
        ELSE IF ~open_rb(local_file_path) THEN Raises("PermissionError", sent)
        ELSE IF ~response.arrived THEN Raises("ConnectionError", sent)
        ELSE IF _handle_response(response.status_code, {200, 201, 204}) # "ok"
        THEN Raises("HTTPError", sent)
        ELSE Returns("True", sent)

upload_file(local_file_path, remote_path, response) ==
    IF ~os_path_exists(local_file_path)
    THEN Raises("FileNotFoundError", <<>>)
    ELSE LET sent == <<Request("PUT", _build_url(remote_path))>>
         IN  IF ~open_rb(local_file_path) THEN Raises("PermissionError", <<>>)
             ELSE IF ~response.arrived THEN Raises("ConnectionError", sent)
             ELSE IF _handle_response(response.status_code, {200, 201, 204}) # "ok"
             THEN Raises("HTTPError", sent)
             ELSE Returns("True", sent)

---------------------------------------------------------------------------
(* create_directory                                                        *)

\* create_directory as it would be with a PROPFIND to make sure after a 405
create_directory_Verify405(remote_path, response) ==
    LET url_path == IF remote_path # <<Slash>> /\ ~endswith_slash(remote_path)
                    THEN remote_path \o <<Slash>>
                    ELSE remote_path
        sent == <<Request("MKCOL", _build_url(url_path))>>
    IN  IF ~response.arrived THEN Raises("ConnectionError", sent)
        ELSE IF response.status_code = 201 THEN Returns("True", sent)
        ELSE IF response.status_code = 405
        THEN Returns("True", sent \o <<Request("PROPFIND", _build_url(url_path))>>)
        ELSE IF _handle_response(response.status_code, {201, 405}) # "ok"
        THEN Raises("HTTPError", sent)
        ELSE Returns("None", sent)

create_directory(remote_path, response) ==
    LET url_path == IF remote_path # <<Slash>> /\ ~endswith_slash(remote_path)
                    THEN remote_path \o <<Slash>>
                    ELSE remote_path
        sent == <<Request("MKCOL", _build_url(url_path))>>
    IN  IF ~response.arrived THEN Raises("ConnectionError", sent)
        ELSE IF response.status_code = 201 THEN Returns("True", sent)
        ELSE IF response.status_code = 405 THEN Returns("True", sent)
        ELSE IF _handle_response(response.status_code, {201, 405}) # "ok"
        THEN Raises("HTTPError", sent)
        ELSE Returns("None", sent)

---------------------------------------------------------------------------
(* list_directory                                                          *)

\* the path the hrefs of the queried directory are compared with
base_href_path_check(remote_path) ==
    LET normalized_remote_path == strip(remote_path)
    IN  IF Len(normalized_remote_path) > 0
        THEN dav_base_path \o <<Slash>> \o normalized_remote_path
        ELSE dav_base_path

\* href.rstrip('/').split('/')[-1]
entry_name(href) ==
    LET parts == split(rstrip(href)) IN parts[Len(parts)]

\* whether the loop body appends an item for a response element: it has an
\* href and a propstat, the href has text to decode, and it is not the
\* queried directory
is_listed(resp_element, remote_path) ==
    /\ resp_element.href_kind # "absent"
    /\ resp_element.propstat
    /\ resp_element.href_kind # "empty"
    /\ rstrip(unquote(resp_element.href)) # base_href_path_check(remote_path)

item_of(resp_element) ==
    LET href == unquote(resp_element.href)
    IN  [href |-> href, name |-> entry_name(href), is_dir |-> resp_element.collection]

RECURSIVE parse_items(_, _)
\* the for loop over root.findall('d:response'), in document order
parse_items(responses, remote_path) ==
    IF Len(responses) = 0 THEN <<>>
    ELSE (IF is_listed(responses[1], remote_path)
          THEN <<item_of(responses[1])>> ELSE <<>>)
         \o parse_items(Tail(responses), remote_path)

\* list_directory with a parse error swallowed into an empty listing
list_directory_EmptyOnParseError(remote_path, response) ==
    LET sent == <<Request("PROPFIND", _build_url(remote_path))>>
    IN  IF ~response.arrived THEN Raises("ConnectionError", sent)
        ELSE IF response.status_code = 404
        THEN Outcome("list", "", <<>>, FALSE, sent)
        ELSE IF _handle_response(response.status_code, {207}) # "ok"
        THEN Raises("HTTPError", sent)
        ELSE IF ~response.body.wellformed
        THEN Outcome("list", "", <<>>, TRUE, sent)
        ELSE Outcome("list", "", parse_items(response.body.responses, remote_path),
                     TRUE, sent)

list_directory(remote_path, response) ==
    LET sent == <<Request("PROPFIND", _build_url(remote_path))>>
    IN  IF ~response.arrived THEN Raises("ConnectionError", sent)
        ELSE IF response.status_code = 404
        THEN Outcome("list", "", <<>>, FALSE, sent)
        ELSE IF _handle_response(response.status_code, {207}) # "ok"
        THEN Raises("HTTPError", sent)
        ELSE IF ~response.body.wellformed
        THEN Outcome("raise", "ParseError", <<>>, TRUE, sent)
        ELSE Outcome("list", "", parse_items(response.body.responses, remote_path),
                     TRUE, sent)

---------------------------------------------------------------------------
(* delete                                                                  *)

delete(remote_path, response) ==
    LET sent == <<Request("DELETE", _build_url(remote_path))>>
    IN  IF ~response.arrived THEN Raises("ConnectionError", sent)
        ELSE IF response.status_code = 404 THEN Returns("False", sent)
        ELSE IF _handle_response(response.status_code, {204}) # "ok"
        THEN Raises("HTTPError", sent)
        ELSE Returns("True", sent)

---------------------------------------------------------------------------
(* The inputs of the calls                                                 *)

\* every string of at most n characters over the alphabet chars
Strings(chars, n) == UNION {[1..k -> chars] : k \in 0..n}

\* Spec: the characters of a remote path
PathChars == {Slash, "docs", " "}

\* SpecUrl: the characters of a remote path
UrlChars == {Slash, "docs", "x.txt", " ", "%", "?", "#", "2", "0"}

\* the status codes a server answers with
StatusCodes == {200, 201, 202, 204, 207, 302, 400, 404, 405, 409, 500}

\* a response element of a multi-status body: href_kind is "absent" (no
\* d:href), "empty" (d:href without text) or "text"
Element(href_kind, href, propstat, collection) ==
    [href_kind |-> href_kind, href |-> href, propstat |-> propstat,
     collection |-> collection]

Body(wellformed, responses) == [wellformed |-> wellformed, responses |-> responses]

NoBody == Body(FALSE, <<>>)

Response(arrived, status_code, body) ==
    [arrived |-> arrived, status_code |-> status_code, body |-> body]

\* the request never got an answer: the session raised ConnectionError
NoResponse == Response(FALSE, 0, NoBody)

\* the path of a request URL, as the server sees it: what follows the host
url_path(u) == SubSeq(u, Len(NEXTCLOUD_URL) + 1, Len(u))

\* the path of its host the server is installed under: empty for the root
web_root == url_path(base_url)

\* the hrefs under which a server reports the collection a request URL
\* names: the URL's path without, with one or with two trailing slashes
SelfHrefs(u) ==
    {rstrip(url_path(u)) \o t : t \in {<<>>, <<Slash>>, <<Slash, Slash>>}}

\* the href of a member of that collection
ChildHref(u, name) == rstrip(url_path(u)) \o <<Slash>> \o quote(name)

\* the response elements a body is made of, for a request URL: the
\* collection with its three hrefs, a file and a collection in it, an href
\* made of slashes only, an element without d:href, one whose d:href has no
\* text, and one without d:propstat
Elements(u) ==
    {Element("text", h, TRUE, TRUE) : h \in SelfHrefs(u)}
    \cup {Element("text", ChildHref(u, <<"x.txt">>), TRUE, FALSE),
          Element("text", ChildHref(u, <<"sub", " ", "dir">>) \o <<Slash>>, TRUE, TRUE),
          Element("text", <<Slash, Slash>>, TRUE, TRUE),
          Element("absent", <<>>, TRUE, FALSE),
          Element("empty", <<>>, TRUE, FALSE),
          Element("text", ChildHref(u, <<"y.txt">>), FALSE, FALSE)}

\* the bodies of at most MaxResp response elements, and one that is no XML
Bodies(u) ==
    {Body(TRUE, r) : r \in Strings(Elements(u), MaxResp)} \cup {NoBody}

\* the bodies tried with the status codes other than 207
SampleBodies(u) ==
    {NoBody,
     Body(TRUE, <<Element("text", rstrip(url_path(u)) \o <<Slash>>, TRUE, TRUE),
                  Element("text", ChildHref(u, <<"x.txt">>), TRUE, FALSE)>>)}

\* the answers to a PROPFIND
ListResponses(u) ==
    {Response(TRUE, 207, b) : b \in Bodies(u)}
    \cup {Response(TRUE, c, b) : c \in StatusCodes \ {207}, b \in SampleBodies(u)}
    \cup {NoResponse}

\* the answers to a PUT, MKCOL or DELETE
PlainResponses == {Response(TRUE, c, NoBody) : c \in StatusCodes} \cup {NoResponse}

Call(op, local_file_path, remote_path, response, out) ==
    [op |-> op, local |-> local_file_path, remote_path |-> remote_path,
     response |-> response, out |-> out]

NoCall == Call("none", "", <<>>, NoResponse, Returns("None", <<>>))

---------------------------------------------------------------------------
(* The REST service: POST /upload-file                                     *)

Requests == 1..MaxRequests

\* the names of the files uploaded to the endpoint
Filenames == {"a.txt", "b.txt"}

\* the bytes of the file of request r: r bytes, each of them r
file_contents(r) == [i \in 1..r |-> r]

\* the remote_path form fields
RemotePaths == {<<Slash, "docs", Slash, "x.txt">>}

temp_file_path(filename) == "temp_" \o filename

TempPaths == {temp_file_path(filename) : filename \in Filenames}

\* the working directory: the file each name is linked to (0: none) and the
\* bytes of each file; a file lives on, unlinked, while a handle is open
EmptyDisk ==
    [names |-> [t \in TempPaths |-> 0], data |-> [f \in Requests |-> <<>>]]

NewRequest ==
    [pc |-> "new", filename |-> "", remote_path |-> <<>>, buffer |-> 0,
     status_code |-> 0, detail |-> "", put |-> <<>>]

\* open(temp_file_path, "wb"): the file of that name emptied, or a new file
\* (named after the request that creates it) linked to the name
open_wb(r, temp) == IF disk.names[temp] = 0 THEN r ELSE disk.names[temp]

\* buffer.write(contents) on a handle at offset 0 of a file holding old
buffer_write(old, contents) ==
    contents \o SubSeq(old, Len(contents) + 1, Len(old))

\* the answers of Nextcloud to the PUT
PutResponses ==
    {Response(TRUE, 201, NoBody), Response(TRUE, 500, NoBody), NoResponse}

---------------------------------------------------------------------------
(* Spec: a caller of the client, the server answering anything             *)

Init ==
    /\ nextcloud_url \in NextcloudUrls
    /\ pc = "idle"
    /\ last = NoCall
    /\ path = <<>>
    /\ url = <<>>
    /\ server = <<>>
    /\ prev = NoCall
    /\ scen = <<>>
    /\ disk = EmptyDisk
    /\ reqs = [r \in Requests |-> NewRequest]

UploadFile ==
    /\ pc = "idle"
    /\ \E f \in LocalFiles, p \in Strings(PathChars, MaxPathLen), r \in PlainResponses :
          last' = Call("upload_file", f, p, r, upload_file(f, p, r))
    /\ pc' = "done"
    /\ UNCHANGED <<disk, reqs, nextcloud_url, path, url, server, prev, scen>>

CreateDirectory ==
    /\ pc = "idle"
    /\ \E p \in Strings(PathChars, MaxPathLen), r \in PlainResponses :
          last' = Call("create_directory", "", p, r, create_directory(p, r))
    /\ pc' = "done"
    /\ UNCHANGED <<disk, reqs, nextcloud_url, path, url, server, prev, scen>>

ListDirectory ==
    /\ pc = "idle"
    /\ \E p \in Strings(PathChars, MaxPathLen) :
          \E r \in ListResponses(_build_url(p)) :
             last' = Call("list_directory", "", p, r, list_directory(p, r))
    /\ pc' = "done"
    /\ UNCHANGED <<disk, reqs, nextcloud_url, path, url, server, prev, scen>>

Delete ==
    /\ pc = "idle"
    /\ \E p \in Strings(PathChars, MaxPathLen), r \in PlainResponses :
          last' = Call("delete", "", p, r, delete(p, r))
    /\ pc' = "done"
    /\ UNCHANGED <<disk, reqs, nextcloud_url, path, url, server, prev, scen>>

\* the caller takes the result and is free to call again
Return ==
    /\ pc = "done"
    /\ pc' = "idle"
    /\ last' = NoCall
    /\ UNCHANGED <<disk, reqs, nextcloud_url, path, url, server, prev, scen>>

Next == UploadFile \/ CreateDirectory \/ ListDirectory \/ Delete \/ Return

Spec == Init /\ [][Next]_vars

---------------------------------------------------------------------------
(* SpecUrl: _build_url on every remote path of at most MaxLen characters   *)

TypeChar ==
    /\ pc = "idle"
    /\ Len(path) < MaxLen
    /\ \E c \in UrlChars : path' = Append(path, c)
    /\ UNCHANGED <<disk, reqs, nextcloud_url, pc, last, url, server, prev, scen>>

BuildUrl ==
    /\ pc = "idle"
    /\ url' = _build_url(path)
    /\ pc' = "done"
    /\ UNCHANGED <<disk, reqs, nextcloud_url, last, path, server, prev, scen>>

NextUrl == TypeChar \/ BuildUrl

SpecUrl == Init /\ [][NextUrl]_vars

---------------------------------------------------------------------------
(* Properties of the calls, under Spec                                     *)

Answered(op) == pc = "done" /\ last.op = op /\ last.response.arrived

\* C1: upload_file of an existing local file returns True when the PUT is
\* answered 200, 201 or 204 and raises for every other status code.
C1_UploadRaisesOnOtherStatus ==
    (Answered("upload_file") /\ last.local = "readable") =>
        IF last.response.status_code \in {200, 201, 204}
        THEN last.out.kind = "True"
        ELSE last.out.kind = "raise"

\* C2: create_directory returns True when the MKCOL is answered 201 or 405
\* and raises for every other status code; it never returns None or False.
C2_MkdirRaisesOnOtherStatus ==
    Answered("create_directory") =>
        IF last.response.status_code \in {201, 405}
        THEN last.out.kind = "True"
        ELSE last.out.kind = "raise"

\* C3: list_directory returns an empty list without parsing the body on
\* 404, parses the body only on 207, and raises for every other status.
C3_ListParsesOnly207 ==
    Answered("list_directory") =>
        /\ last.response.status_code = 404 =>
              last.out.kind = "list" /\ last.out.items = <<>> /\ ~last.out.parsed
        /\ last.out.parsed => last.response.status_code = 207
        /\ last.response.status_code \notin {404, 207} => last.out.kind = "raise"

\* C4: delete returns False on 404, True only on 204, and raises for every
\* other status code.
C4_DeleteTrueOnly204 ==
    Answered("delete") =>
        /\ last.response.status_code = 404 => last.out.kind = "False"
        /\ last.out.kind = "True" => last.response.status_code = 204
        /\ last.response.status_code \notin {404, 204} => last.out.kind = "raise"

\* the decoded hrefs under which the server reports the queried directory
DecodedSelfHrefs == {unquote(h) : h \in SelfHrefs(_build_url(last.remote_path))}

Listed207 ==
    /\ Answered("list_directory")
    /\ last.response.status_code = 207
    /\ last.out.kind = "list"

\* C5: the listing of a 207 response holds no entry for the queried
\* directory itself, however the request path is slashed and whether or not
\* the server's href of the directory ends in '/'.  The server's href of the
\* directory is the path of the request URL.
C5_NoSelfEntry ==
    Listed207 =>
        \A i \in 1..Len(last.out.items) : last.out.items[i].href \notin DecodedSelfHrefs

\* C11: every entry of a listing has a name that is not empty and is the
\* last non-empty segment of its decoded href, also for hrefs made only of
\* slashes and hrefs with several trailing slashes.
C11_NameIsLastNonEmptySegment ==
    Listed207 =>
        \A i \in 1..Len(last.out.items) :
           LET segments == NonEmptySegments(last.out.items[i].href)
           IN  /\ last.out.items[i].name # <<>>
               /\ segments # <<>>
               /\ last.out.items[i].name = segments[Len(segments)]

\* C12: a 207 answer whose body is not well-formed XML makes list_directory
\* raise ParseError and return nothing, neither an empty nor a partial
\* list; ParseError is raised for malformed bodies only and is another
\* error than the HTTPError of a failure status code.
C12_MalformedBodyRaisesParseError ==
    Answered("list_directory") =>
        /\ (last.response.status_code = 207 /\ ~last.response.body.wellformed) =>
               /\ last.out.kind = "raise"
               /\ last.out.exc = "ParseError"
               /\ last.out.items = <<>>
        /\ last.out.exc = "ParseError" => ~last.response.body.wellformed
        /\ last.out.exc = "HTTPError" =>
               /\ last.out.exc # "ParseError"
               /\ last.response.status_code >= 400

C12_Witness ==
    /\ Answered("list_directory")
    /\ last.response.status_code = 207
    /\ ~last.response.body.wellformed
    /\ last.out.kind = "raise"
    /\ last.out.exc = "ParseError"

\* the response elements of the answer that have an href with text and a
\* propstat and are not the queried directory itself, in the server's order
ExpectedElements ==
    SelectSeq(last.response.body.responses,
              LAMBDA e : /\ e.href_kind = "text"
                         /\ e.propstat
                         /\ unquote(e.href) \notin DecodedSelfHrefs)

\* C13: the listing of a well-formed 207 answer is exactly the response
\* elements that have an href and a propstat, whose href decodes and that
\* are not the self entry, one entry each in the server's order; the other
\* elements are skipped without aborting the listing or dropping others.
C13_ListingIsTheKeptElements ==
    Listed207 =>
        /\ Len(last.out.items) = Len(ExpectedElements)
        /\ \A i \in 1..Len(ExpectedElements) :
              /\ last.out.items[i].href = unquote(ExpectedElements[i].href)
              /\ last.out.items[i].is_dir = ExpectedElements[i].collection

\* C7 as stated: a local source that does not exist or cannot be read makes
\* upload_file raise FileNotFoundError with no request issued.
C7_MissingOrUnreadableIsFileNotFound ==
    (pc = "done" /\ last.op = "upload_file" /\ last.local \in {"missing", "unreadable"}) =>
        /\ last.out.kind = "raise"
        /\ last.out.exc = "FileNotFoundError"
        /\ last.out.sent = <<>>

\* C7, amended: a local source that does not exist makes upload_file raise
\* FileNotFoundError; one that exists and cannot be opened makes it raise
\* the error of open(), which is not FileNotFoundError; in both cases no
\* request has been issued.
C7_NoRequestBeforeLocalError ==
    (pc = "done" /\ last.op = "upload_file") =>
        /\ last.local = "missing" =>
              /\ last.out.kind = "raise"
              /\ last.out.exc = "FileNotFoundError"
              /\ last.out.sent = <<>>
        /\ last.local = "unreadable" =>
              /\ last.out.kind = "raise"
              /\ last.out.exc = "PermissionError"
              /\ last.out.sent = <<>>

\* an upload of a file that does not exist has raised, with a server ready
\* to answer and nothing sent to it
C7_Witness ==
    /\ pc = "done"
    /\ last.op = "upload_file"
    /\ last.local = "missing"
    /\ last.out.exc = "FileNotFoundError"
    /\ last.out.sent = <<>>
    /\ last.response.arrived

---------------------------------------------------------------------------
(* Properties of _build_url, under SpecUrl                                 *)

Built == pc = "done"

\* what _build_url put after the DAV root
AfterDavRoot == SubSeq(url, Len(base_url) + Len(dav_base_path) + 1, Len(url))

\* the part of the URL after the DAV root and the '/' that follows it
AppendedPath == SubSeq(AfterDavRoot, 2, Len(AfterDavRoot))

IsRootPath == path \in {<<>>, <<Slash>>}

\* C9 as stated: for the root path '/' and for the empty path, _build_url
\* returns the base URL and the DAV root with nothing after the DAV root.
C9_RootUrlHasNothingAppended ==
    (Built /\ IsRootPath) => url = base_url \o dav_base_path

\* C9, amended: for the root path '/' and for the empty path, _build_url
\* returns the base URL, the DAV root and one '/', with no path segment
\* after it.
C9_RootUrlEndsInOneSlash ==
    (Built /\ IsRootPath) => url = base_url \o dav_base_path \o <<Slash>>

\* the URL of the root path has been built
C9_Witness ==
    /\ Built
    /\ path = <<Slash>>
    /\ AfterDavRoot = <<Slash>>

\* the URL's segments decode, one by one, to the given segments
RoundTrips(segments) ==
    LET urlSegments == split(AppendedPath)
    IN  /\ Len(urlSegments) = Len(segments)
        /\ \A i \in 1..Len(segments) : unquote(urlSegments[i]) = segments[i]

\* C10 as stated: the URL's path after the DAV root, split on '/', has as
\* many segments as the remote path has non-empty segments, and each decodes
\* to the segment it stands for.
C10_SegmentsAreTheNonEmptyOnes ==
    Built => RoundTrips(NonEmptySegments(path))

\* C10, amended: the URL's path after the DAV root, split on '/', has as
\* many segments as the remote path has once its leading and trailing
\* slashes are stripped (an empty segment between two inner slashes, and
\* the one empty segment of the root path, are kept), and each decodes to
\* the segment it stands for.
C10_SegmentsRoundTrip ==
    Built => /\ AfterDavRoot[1] = Slash
             /\ RoundTrips(split(strip(path)))

\* a path whose segment reads like an encoded space: its '%' is encoded
C10_Witness ==
    /\ Built
    /\ path = <<Slash, "%", "2", "0">>
    /\ AppendedPath = <<"%", "2", "5", "2", "0">>

---------------------------------------------------------------------------
(* SpecDav: the client against a server that keeps a set of resources and  *)
(* answers as a WebDAV server does (RFC 4918)                              *)

\* the resources of the server, /a, /a/b, /a/b/x.txt and /a/b/y.txt, each
\* named by the segments of its path, in the order the server lists them
ResourceKeys ==
    <<(<< <<"a">> >>), << <<"a">>, <<"b">> >>,
      << <<"a">>, <<"b">>, <<"x.txt">> >>, << <<"a">>, <<"b">>, <<"y.txt">> >> >>

KeySet == {ResourceKeys[i] : i \in 1..Len(ResourceKeys)}

\* the remote paths the caller uses
DavPaths == {<<Slash, "a">>, <<Slash, "a", Slash, "b">>,
             <<Slash, "a", Slash, "b", Slash, "x.txt">>,
             <<Slash, "a", Slash, "b", Slash, "y.txt">>}

\* the server with nothing but the user's root collection
EmptyServer == [k \in KeySet |-> "absent"]

\* "dir", "file" or "absent"; the root collection always exists
kind_of(srv, k) ==
    IF k = <<>> THEN "dir" ELSE IF k \in KeySet THEN srv[k] ELSE "absent"

parent_of(k) == SubSeq(k, 1, Len(k) - 1)

\* k is below anc
is_below(k, anc) == Len(k) > Len(anc) /\ SubSeq(k, 1, Len(anc)) = anc

\* the resource a request URL names: the decoded segments after the DAV root
resource_of(u) ==
    LET segs == NonEmptySegments(SubSeq(url_path(u),
                                        Len(web_root) + Len(dav_base_path) + 1,
                                        Len(url_path(u))))
    IN  [i \in 1..Len(segs) |-> unquote(segs[i])]

\* the href the server gives a resource: collections end in '/'
href_of(srv, k) ==
    web_root \o dav_base_path \o <<Slash>> \o join([i \in 1..Len(k) |-> quote(k[i])])
    \o (IF kind_of(srv, k) = "dir" /\ k # <<>> THEN <<Slash>> ELSE <<>>)

element_of(srv, k) == Element("text", href_of(srv, k), TRUE, kind_of(srv, k) = "dir")

\* the multi-status body of a PROPFIND with Depth: 1
multistatus(srv, k) ==
    LET members == SelectSeq(ResourceKeys,
                             LAMBDA m : parent_of(m) = k /\ srv[m] # "absent")
    IN  Body(TRUE, <<element_of(srv, k)>>
                   \o [i \in 1..Len(members) |-> element_of(srv, members[i])])

\* the server's answer to a request and the resources it holds afterwards
Answer(status_code, body, srv) ==
    [response |-> Response(TRUE, status_code, body), server |-> srv]

serve(srv, request) ==
    LET k == resource_of(request.url)
        here == kind_of(srv, k)
        above == kind_of(srv, parent_of(k))
    IN  CASE request.method = "MKCOL" ->
                IF here # "absent" THEN Answer(405, NoBody, srv)
                ELSE IF above # "dir" \/ k \notin KeySet THEN Answer(409, NoBody, srv)
                ELSE Answer(201, NoBody, [srv EXCEPT ![k] = "dir"])
          [] request.method = "PUT" ->
                IF here = "dir" THEN Answer(405, NoBody, srv)
                ELSE IF above # "dir" \/ k \notin KeySet THEN Answer(409, NoBody, srv)
                ELSE IF here = "file" THEN Answer(204, NoBody, srv)
                ELSE Answer(201, NoBody, [srv EXCEPT ![k] = "file"])
          [] request.method = "PROPFIND" ->
                IF here = "absent" THEN Answer(404, NoBody, srv)
                ELSE Answer(207, multistatus(srv, k), srv)
          [] request.method = "DELETE" ->
                IF here = "absent" \/ k = <<>> THEN Answer(404, NoBody, srv)
                ELSE Answer(204, NoBody,
                            [m \in KeySet |->
                                IF m = k \/ is_below(m, k) THEN "absent" ELSE srv[m]])

\* the example sequence of calls
Step(op, local_file_path, remote_path) ==
    [op |-> op, local |-> local_file_path, remote_path |-> remote_path]

Scenario ==
    <<Step("create_directory", "", <<Slash, "a", Slash, "b">>),
      Step("upload_file", "readable", <<Slash, "a", Slash, "b", Slash, "x.txt">>),
      Step("list_directory", "", <<Slash, "a", Slash, "b">>),
      Step("delete", "", <<Slash, "a", Slash, "b", Slash, "x.txt">>),
      Step("list_directory", "", <<Slash, "a", Slash, "b">>),
      Step("delete", "", <<Slash, "a", Slash, "b">>)>>

\* the server the example sequence is started on has the collection /a, and
\* /a/b is absent or a collection with nothing in it but, possibly, a file
\* x.txt
ScenarioStart(srv) ==
    /\ srv[ResourceKeys[1]] = "dir"
    /\ srv[ResourceKeys[2]] \in {"absent", "dir"}
    /\ srv[ResourceKeys[3]] \in {"absent", "file"}
    /\ srv[ResourceKeys[4]] = "absent"

NoScenario == [pos |-> 0, pre |-> FALSE, outs |-> <<>>]

\* how far the calls made so far, up to the last, follow the example
\* sequence, whether it was started as ScenarioStart says, and what its
\* calls returned
follow(s, srv, call) ==
    LET step == Step(call.op, call.local, call.remote_path)
    IN  IF s.pos < Len(Scenario) /\ step = Scenario[s.pos + 1]
        THEN [pos |-> s.pos + 1,
              pre |-> IF s.pos = 0 THEN ScenarioStart(srv) ELSE s.pre,
              outs |-> Append(s.outs, call.out)]
        ELSE IF step = Scenario[1]
        THEN [pos |-> 1, pre |-> ScenarioStart(srv), outs |-> <<call.out>>]
        ELSE NoScenario

InitDav ==
    /\ nextcloud_url \in NextcloudUrls
    /\ pc = "idle"
    /\ last = NoCall
    /\ path = <<>>
    /\ url = <<>>
    /\ server = EmptyServer
    /\ prev = NoCall
    /\ scen = NoScenario
    /\ disk = EmptyDisk
    /\ reqs = [r \in Requests |-> NewRequest]

\* a call has been made: the server has answered its request, if it sent one
Called(call, srv) ==
    /\ last' = call
    /\ prev' = last
    /\ server' = srv
    /\ scen' = follow(scen, server, call)
    /\ pc' = "done"

DavUploadFile ==
    /\ \E f \in LocalFiles, p \in DavPaths :
          LET tried == upload_file(f, p, NoResponse)
          IN  IF tried.sent = <<>>
              THEN Called(Call("upload_file", f, p, NoResponse, tried), server)
              ELSE LET a == serve(server, tried.sent[1])
                   IN  Called(Call("upload_file", f, p, a.response,
                                   upload_file(f, p, a.response)), a.server)
    /\ UNCHANGED <<disk, reqs, nextcloud_url, path, url>>

DavCreateDirectory ==
    /\ \E p \in DavPaths :
          LET a == serve(server, create_directory(p, NoResponse).sent[1])
          IN  Called(Call("create_directory", "", p, a.response,
                          create_directory(p, a.response)), a.server)
    /\ UNCHANGED <<disk, reqs, nextcloud_url, path, url>>

DavListDirectory ==
    /\ \E p \in DavPaths :
          LET a == serve(server, list_directory(p, NoResponse).sent[1])
          IN  Called(Call("list_directory", "", p, a.response,
                          list_directory(p, a.response)), a.server)
    /\ UNCHANGED <<disk, reqs, nextcloud_url, path, url>>

DavDelete ==
    /\ \E p \in DavPaths :
          LET a == serve(server, delete(p, NoResponse).sent[1])
          IN  Called(Call("delete", "", p, a.response, delete(p, a.response)),
                     a.server)
    /\ UNCHANGED <<disk, reqs, nextcloud_url, path, url>>

NextDav == DavUploadFile \/ DavCreateDirectory \/ DavListDirectory \/ DavDelete

SpecDav == InitDav /\ [][NextDav]_vars

---------------------------------------------------------------------------
(* Properties of the calls against the WebDAV server, under SpecDav        *)

\* what the i-th call of the example sequence is to hand back
AsExpected(i, out) ==
    CASE i \in {1, 2, 4, 6} -> out.kind = "True"
      [] i = 3 -> /\ out.kind = "list"
                  /\ Len(out.items) = 1
                  /\ out.items[1].name = <<"x.txt">>
                  /\ ~out.items[1].is_dir
      [] i = 5 -> out.kind = "list" /\ out.items = <<>>

\* the resource a call was about
resource_called(call) == resource_of(_build_url(call.remote_path))

DeletedBefore == prev.op = "delete" /\ prev.out.kind = "True"

\* after delete returned True for a resource, a listing of its parent does
\* not hold it and another delete of it returns False
GoneAfterDelete ==
    DeletedBefore =>
        /\ (last.op = "list_directory"
            /\ resource_called(last) = parent_of(resource_called(prev))) =>
              /\ last.out.kind = "list"
              /\ \A i \in 1..Len(last.out.items) :
                    resource_of(NEXTCLOUD_URL \o last.out.items[i].href)
                        # resource_called(prev)
        /\ (last.op = "delete" /\ last.remote_path = prev.remote_path) =>
              last.out.kind = "False"

\* C6: against a WebDAV server, create_directory('/a/b'),
\* upload_file(bytes, '/a/b/x.txt'), list_directory('/a/b'),
\* delete('/a/b/x.txt'), list_directory('/a/b'), delete('/a/b') yield True,
\* True, one entry x.txt that is no directory, True, an empty list, True; and
\* what delete returned True for is gone afterwards.  The sequence is taken
\* as started on a server that has the collection /a, which MKCOL /a/b
\* needs, and nothing in /a/b but, possibly, a file x.txt.
C6_ScenarioYieldsExpected ==
    /\ scen.pre => \A i \in 1..scen.pos : AsExpected(i, scen.outs[i])
    /\ GoneAfterDelete

---------------------------------------------------------------------------
(* SpecApi: upload requests at the REST endpoint, which share the event    *)
(* loop and give it up at await file.read() only                           *)

\* a request arrives: the temporary file is opened for writing and the
\* handler waits for file.read()
OpenTemp(r) ==
    /\ reqs[r].pc = "new"
    /\ \E filename \in Filenames, remote_path \in RemotePaths :
          LET temp == temp_file_path(filename)
              buffer == open_wb(r, temp)
          IN  /\ disk' = [names |-> [disk.names EXCEPT ![temp] = buffer],
                           data |-> [disk.data EXCEPT ![buffer] = <<>>]]
              /\ reqs' = [reqs EXCEPT ![r] =
                            [@ EXCEPT !.pc = "reading", !.filename = filename,
                                      !.remote_path = remote_path,
                                      !.buffer = buffer]]
    /\ UNCHANGED <<nextcloud_url, pc, last, path, url, server, prev, scen>>

\* file.read() returns: the bytes are written and the file closed, the
\* client uploads the temporary file, the request is answered and the
\* temporary file removed if it is there
FinishUpload(r) ==
    /\ reqs[r].pc = "reading"
    /\ \E response \in PutResponses :
          LET temp == temp_file_path(reqs[r].filename)
              data == [disk.data EXCEPT ![reqs[r].buffer] =
                          buffer_write(@, file_contents(r))]
              local == IF disk.names[temp] # 0 THEN "readable" ELSE "missing"
              out == upload_file(local, reqs[r].remote_path, response)
          IN  /\ disk' = [names |-> [disk.names EXCEPT ![temp] = 0],
                           data |-> data]
              /\ reqs' = [reqs EXCEPT ![r] =
                            [@ EXCEPT !.pc = "done",
                                      !.status_code =
                                          IF out.kind = "True" THEN 200 ELSE 500,
                                      !.detail = out.exc,
                                      !.put = IF out.sent = <<>> THEN <<>>
                                              ELSE <<data[disk.names[temp]]>>]]
    /\ UNCHANGED <<nextcloud_url, pc, last, path, url, server, prev, scen>>

NextApi == \E r \in Requests : OpenTemp(r) \/ FinishUpload(r)

SpecApi == Init /\ [][NextApi]_vars

\* C14: upload requests that interleave at await file.read() are
\* independent, also when their files have the same filename: a finished
\* request has sent Nextcloud one PUT with exactly the bytes of its own
\* file, none has failed for a missing local file, and when all have
\* finished no temporary file is left.
C14_ConcurrentUploadsIndependent ==
    /\ \A r \in Requests :
          reqs[r].pc = "done" =>
              /\ reqs[r].put = <<file_contents(r)>>
              /\ reqs[r].detail # "FileNotFoundError"
    /\ (\A r \in Requests : reqs[r].pc = "done") =>
          \A t \in TempPaths : disk.names[t] = 0

====
